---- MODULE Spec2Model ----
(***************************************************************************)
(* Karma calculator: the rocket server of src/src/server.rs (handlers,    *)
(* the three tokio mutexes they take, the submission store) and the       *)
(* circuit of src/src/circuit.rs, as a state machine.                     *)
(*                                                                         *)
(* A ciphertext is modelled by the plaintext row it encrypts and           *)
(* homomorphic + and - by wrapping 8-bit arithmetic; a key share and a     *)
(* decryption share are opaque tags.  Each request is served by one of     *)
(* the worker Threads; a handler is cut into steps at the points where it  *)
(* awaits a mutex that it may have to wait for.  The client side (the User *)
(* of src/src/tests.rs) has a specification of its own, ClientSpec.        *)
(***************************************************************************)
EXTENDS Integers, Sequences, FiniteSets, TLC

\* pub const TOTAL_USERS: usize = 3;
TOTAL_USERS == 3

\* Cap on the number of register calls explored.
MaxUsers == 4

\* Rocket worker tasks that serve requests concurrently.
Threads == {1, 2}

\* The (ciphertext, key share) pairs a client may send to /submit; a
\* ciphertext is the row of scores it encrypts, one amount per recipient.
Submissions == {[cipher_text |-> <<0, 2, 4>>, sks |-> 1],
                [cipher_text |-> <<200, 100, 1>>, sks |-> 2]}

\* The decryption share vectors a client may send.
ShareVecs == {<<10, 11, 12>>, <<20>>}

\* Values thread_rng may put in the seed.
SeedValues == {7}

VARIABLES
    users,        \* UserList: Mutex<Vec<RegisteredUser>>, the Vec
    seed,         \* ServerStorage.seed
    ss_users,     \* ServerStorage.users: Vec<UserStorage>
    fhe_outputs,  \* ServerStorage.fhe_outputs
    status,       \* MutexServerStatus, the ServerStatus
    server_key,   \* phantom_zone's process-wide active server key (Option)
    users_lock,   \* holder of the UserList mutex, 0 when free
    ss_lock,      \* holder of the MutexServerStorage mutex, 0 when free
    pc,           \* per thread: where its handler is suspended, or "idle"
    loc,          \* per thread: the handler's arguments and locals
    resp,         \* the response being written to the client, if any
    concluded,    \* registration has been concluded
    lastSub,      \* history: per slot, the last pair /submit stored (Option)
    resub,        \* history: some /submit replaced a different stored pair
    keyInstalls,  \* history: number of derive_server_key calls so far
    user,         \* a client: the User of tests.rs
    circuit       \* one call of evaluate_circuit: its argument and result

\* The variables of the server.
server_vars == <<users, seed, ss_users, fhe_outputs, status, server_key,
                 users_lock, ss_lock, pc, loc, resp, concluded, lastSub, resub,
                 keyInstalls>>

vars == <<server_vars, user, circuit>>

----------------------------------------------------------------------------
\* Option<T> as a sequence: None is <<>>, Some(x) is <<x>>.
None == <<>>

Some(x) == <<x>>

\* enum UserStorage
Empty == [tag |-> "Empty"]

CipherSks(cipher, sks) == [tag |-> "CipherSks", cipher |-> cipher, sks |-> sks]

DecryptionShare(ds) == [tag |-> "DecryptionShare", ds |-> ds]

\* UserStorage::get_cipher_sks
get_cipher_sks(slot) ==
    IF slot.tag = "CipherSks" THEN Some(<<slot.cipher, slot.sks>>) ELSE None

\* Faulty variant of get_mut_decryption_shares: a slot that holds a pair
\* passes for one that awaits decryption shares.
get_mut_decryption_shares_of_pair(slot) ==
    IF slot.tag = "DecryptionShare" THEN Some(slot.ds)
    ELSE IF slot.tag = "CipherSks" THEN Some(None) ELSE None

\* UserStorage::get_mut_decryption_shares
get_mut_decryption_shares(slot) ==
    IF slot.tag = "DecryptionShare" THEN Some(slot.ds) ELSE None

\* RegisteredUser (the name plays no part in the protocol and is left out)
RegisteredUser(id, st) == [id |-> id, status |-> st]

\* A response: the handler that produced it, its kind, its payload.
Response(op, kind, val) == [op |-> op, kind |-> kind, val |-> val]

NoResp == Response("", "", <<>>)

\* Locals of an idle thread.
NoLoc == <<>>

----------------------------------------------------------------------------
\* FheUint8 addition and subtraction: 8-bit wrapping.
Add8(a, b) == (a + b) % 256

\* Faulty variant of Sub8: the subtraction saturates at 0.
Sub8_saturating(a, b) == IF a >= b THEN a - b ELSE 0

Sub8(a, b) == (a - b + 256) % 256

\* sum_fhe_dyn: reduce(|a, b| &a + &b) over a non-empty slice.
RECURSIVE sum_fhe_dyn(_)
sum_fhe_dyn(s) ==
    IF Len(s) = 1 THEN s[1] ELSE Add8(sum_fhe_dyn(SubSeq(s, 1, Len(s) - 1)), s[Len(s)])

\* The closure of evaluate_circuit for one my_id (0-based).
karma_of(ciphers, my_id) ==
    LET sent == sum_fhe_dyn(ciphers[my_id + 1])
        received == sum_fhe_dyn([j \in 1..Len(ciphers) |-> ciphers[j][my_id + 1]])
    IN  Sub8(received, sent)

\* evaluate_circuit: one output per entry of users, in order.
evaluate_circuit(ciphers) ==
    [i \in 1..Len(ciphers) |-> karma_of(ciphers, i - 1)]

----------------------------------------------------------------------------
\* User ids a request may carry (registered or not).
UserIds == 0..(MaxUsers - 1)

\* Output indices a /decryption_share request may carry.
OutputIds == 0..(TOTAL_USERS - 1)

\* User::new: nothing is known yet and no decryption share is held.  The
\* map of shares is the set of its keys (output_id, user_id): a share is
\* told by the cell it is for.  decrypted is what decrypt_everything
\* returned, panicked that an expect has failed.
User_new ==
    [id |-> None, total_users |-> None, fhe_out |-> None,
     decryption_shares |-> {}, decrypted |-> None, panicked |-> FALSE]

\* No call of evaluate_circuit is being looked at.
NoCircuit == [ciphers |-> <<>>, outs |-> <<>>]

\* rocket(): no user, ServerStorage::new(seed), ServerStatus::Waiting; the
\* client has just been built.
Init ==
    /\ users = <<>>
    /\ seed \in SeedValues
    /\ ss_users = [i \in 1..TOTAL_USERS |-> Empty]
    /\ fhe_outputs = <<>>
    /\ status = "Waiting"
    /\ server_key = None
    /\ users_lock = 0
    /\ ss_lock = 0
    /\ pc = [t \in Threads |-> "idle"]
    /\ loc = [t \in Threads |-> NoLoc]
    /\ resp = NoResp
    /\ concluded = FALSE
    /\ lastSub = [u \in 0..(TOTAL_USERS - 1) |-> None]
    /\ resub = FALSE
    /\ keyInstalls = 0
    /\ user = User_new
    /\ circuit = NoCircuit

\* A handler returns: its guards are dropped and the thread is idle again.
Return(t, r) ==
    /\ pc' = [pc EXCEPT ![t] = "idle"]
    /\ loc' = [loc EXCEPT ![t] = NoLoc]
    /\ users_lock' = IF users_lock = t THEN 0 ELSE users_lock
    /\ ss_lock' = IF ss_lock = t THEN 0 ELSE ss_lock
    /\ resp' = r

\* An index out of bounds panics; the unwinding drops the guards and rocket
\* answers 500.
Panic(t, op) == Return(t, Response(op, "panic", <<>>))

\* The server proceeds once the last response is on the wire.
Quiet == resp.op = ""

\* Some worker is free to take a request.
Idle == \E t \in Threads : pc[t] = "idle"

\* A handler that takes one mutex, awaits nothing else and changes nothing
\* answers in one step; it leaves every thread and mutex as it found them.
Answer(r) ==
    /\ Quiet
    /\ Idle
    /\ resp' = r
    /\ UNCHANGED <<pc, loc, users_lock, ss_lock>>

\* Faulty variant of served_seed: the seed is drawn again at each request.
served_seed_redrawn(sd) == (sd + 1) % 256

\* Json(ss.seed): the seed /param answers with.
served_seed(sd) == sd

\* GET /param
get_param ==
    /\ ss_lock = 0
    /\ Answer(Response("get_param", "Seed", <<served_seed(seed)>>))
    /\ UNCHANGED <<circuit, user, users, seed, ss_users, fhe_outputs, status, server_key,
                   concluded, lastSub, resub, keyInstalls>>

\* Faulty variant of next_user_id: the id is taken after the push.
next_user_id_after_push(us) == Len(us) + 1

\* let user_id = users.len();
next_user_id(us) == Len(us)

\* POST /register
register(t) ==
    /\ Quiet
    /\ pc[t] = "idle"
    /\ users_lock = 0
    /\ Len(users) < MaxUsers
    /\ LET user_id == next_user_id(users)
       IN  /\ users' = Append(users, RegisteredUser(user_id, "IDAcquired"))
           /\ Return(t, Response("register", "RegistrationOut", <<user_id>>))
    /\ UNCHANGED <<circuit, user, seed, ss_users, fhe_outputs, status, server_key,
                   concluded, lastSub, resub, keyInstalls>>

\* GET /users
get_users ==
    /\ users_lock = 0
    /\ Answer(Response("get_users", "users", [i \in 1..Len(users) |-> users[i].id]))
    /\ UNCHANGED <<circuit, user, users, seed, ss_users, fhe_outputs, status, server_key,
                   concluded, lastSub, resub, keyInstalls>>

\* POST /conclude_registration: closes the registration, once.
conclude_registration(t) ==
    /\ Quiet
    /\ pc[t] = "idle"
    /\ IF concluded
       THEN /\ Return(t, Response("conclude_registration", "err_already_concluded", <<>>))
            /\ UNCHANGED concluded
       ELSE /\ concluded' = TRUE
            /\ Return(t, Response("conclude_registration", "Dashboard", <<Len(users)>>))
    /\ UNCHANGED <<circuit, user, users, seed, ss_users, fhe_outputs, status, server_key,
                   lastSub, resub, keyInstalls>>

\* Faulty variant of stored_submission: a slot that holds a pair keeps it.
stored_submission_keep_first(slot, sub) ==
    IF slot.tag = "CipherSks" THEN slot ELSE CipherSks(sub.cipher_text, sub.sks)

\* ss.users[user_id] = UserStorage::CipherSks(cipher_text, sks): what the
\* slot holds after the assignment.
stored_submission(slot, sub) == CipherSks(sub.cipher_text, sub.sks)

\* Faulty variant of unregistered: the first free id passes the check.
unregistered_off_by_one(us, user_id) == Len(us) < user_id

\* if users.len() <= user_id
unregistered(us, user_id) == Len(us) <= user_id

\* POST /submit, up to the await of the storage mutex.
submit(t) ==
    /\ Quiet
    /\ pc[t] = "idle"
    /\ users_lock = 0
    /\ \E user_id \in UserIds, sub \in Submissions :
          IF unregistered(users, user_id)
          THEN /\ Return(t, Response("submit", "err_unregistered_user", <<user_id>>))
          ELSE /\ users_lock' = t
               /\ pc' = [pc EXCEPT ![t] = "submit_ss"]
               /\ loc' = [loc EXCEPT ![t] = [user_id |-> user_id, sub |-> sub]]
               /\ resp' = NoResp
               /\ UNCHANGED ss_lock
    /\ UNCHANGED <<circuit, user, users, seed, ss_users, fhe_outputs, status, server_key,
                   concluded, lastSub, resub, keyInstalls>>

\* Faulty variant of status_after_submit: the status is not advanced.
status_after_submit_not_advanced == "IDAcquired"

\* users[user_id].status = UserStatus::CipherSubmitted
status_after_submit == "CipherSubmitted"

\* POST /submit, from the storage mutex to the response.
submit_ss(t) ==
    /\ Quiet
    /\ pc[t] = "submit_ss"
    /\ ss_lock = 0
    /\ LET user_id == loc[t].user_id
           sub == loc[t].sub
       IN  IF user_id >= Len(ss_users)
           THEN /\ Panic(t, "submit")
                /\ UNCHANGED <<users, ss_users, lastSub, resub>>
           ELSE /\ ss_users' = [ss_users EXCEPT
                                  ![user_id + 1] = stored_submission(@, sub)]
                /\ users' = [users EXCEPT ![user_id + 1].status = status_after_submit]
                /\ lastSub' = [lastSub EXCEPT ![user_id] = Some(sub)]
                /\ resub' = (resub \/ (/\ ss_users[user_id + 1].tag = "CipherSks"
                                       /\ ss_users[user_id + 1].cipher # sub.cipher_text))
                /\ Return(t, Response("submit", "ok_user", <<user_id>>))
    /\ UNCHANGED <<circuit, user, seed, fhe_outputs, status, server_key, concluded, keyInstalls>>

\* Faulty variant of run_status_match: a finished evaluation can be run again.
run_status_match_rerun(s) ==
    IF s = "RunningFhe" THEN "err_run_in_progress" ELSE "start"

\* Faulty variant of run_status_match: only CompletedFhe stops a new run.
run_status_match_unguarded(s) ==
    IF s = "CompletedFhe" THEN "ok_run_already_end" ELSE "start"

\* match *s { Waiting => ..., RunningFhe => ..., CompletedFhe => ... }: the
\* arm /run takes.
run_status_match(s) ==
    CASE s = "Waiting" -> "start"
      [] s = "RunningFhe" -> "err_run_in_progress"
      [] s = "CompletedFhe" -> "ok_run_already_end"

\* POST /run, the status check: the status mutex is taken and dropped with
\* no await in between.
run(t) ==
    /\ Quiet
    /\ pc[t] = "idle"
    /\ LET arm == run_status_match(status)
       IN  IF arm = "start"
           THEN /\ status' = "RunningFhe"
                /\ pc' = [pc EXCEPT ![t] = "run_users"]
                /\ resp' = NoResp
                /\ UNCHANGED <<loc, users_lock, ss_lock>>
           ELSE /\ Return(t, Response("run", arm, <<>>))
                /\ UNCHANGED status
    /\ UNCHANGED <<circuit, user, users, seed, ss_users, fhe_outputs, server_key,
                   concluded, lastSub, resub, keyInstalls>>

\* Faulty variant of rollback_status: the failing /run leaves the status.
rollback_status_forgotten == "RunningFhe"

\* *status.lock().await = ServerStatus::Waiting: what a failing /run sets
\* the status back to.
rollback_status == "Waiting"

\* POST /run, from the user list mutex to the await of the storage mutex.
run_users(t) ==
    /\ Quiet
    /\ pc[t] = "run_users"
    /\ users_lock = 0
    /\ IF Len(users) < TOTAL_USERS
       THEN /\ status' = rollback_status
            /\ Return(t, Response("run", "err_unregistered_users", <<Len(users)>>))
       ELSE /\ users_lock' = t
            /\ pc' = [pc EXCEPT ![t] = "run_ss"]
            /\ resp' = NoResp
            /\ UNCHANGED <<status, loc, ss_lock>>
    /\ UNCHANGED <<circuit, user, users, seed, ss_users, fhe_outputs, server_key,
                   concluded, lastSub, resub, keyInstalls>>

\* The loop of /run over users.iter().enumerate(), from user_id on: the
\* slots it leaves, how it ends, and the snapshot it collected.
RECURSIVE load_submissions(_, _, _, _, _)
load_submissions(n, slots, user_id, server_key_shares, ciphers) ==
    LET r(outcome) == [outcome |-> outcome, user_id |-> user_id, slots |-> slots,
                       server_key_shares |-> server_key_shares, ciphers |-> ciphers]
    IN  IF user_id = n THEN r("ok")
        ELSE IF user_id >= Len(slots) THEN r("panic")
        ELSE LET got == get_cipher_sks(slots[user_id + 1])
             IN  IF got = None THEN r("missing")
                 ELSE load_submissions(
                          n,
                          [slots EXCEPT ![user_id + 1] = DecryptionShare(None)],
                          user_id + 1,
                          Append(server_key_shares, got[1][2]),
                          Append(ciphers, got[1][1]))

\* POST /run, from the storage mutex to the call of derive_server_key.
run_ss(t) ==
    /\ Quiet
    /\ pc[t] = "run_ss"
    /\ ss_lock = 0
    /\ LET r == load_submissions(Len(users), ss_users, 0, <<>>, <<>>)
       IN  /\ ss_users' = r.slots
           /\ CASE r.outcome = "ok" ->
                     /\ ss_lock' = t
                     /\ pc' = [pc EXCEPT ![t] = "run_derive_server_key"]
                     /\ loc' = [loc EXCEPT ![t] =
                                  [server_key_shares |-> r.server_key_shares,
                                   ciphers |-> r.ciphers]]
                     /\ resp' = NoResp
                     /\ UNCHANGED <<status, users_lock>>
                [] r.outcome = "missing" ->
                     /\ status' = rollback_status
                     /\ Return(t, Response("run", "err_missing_submission", <<r.user_id>>))
                [] r.outcome = "panic" ->
                     /\ Panic(t, "run")
                     /\ UNCHANGED status
    /\ UNCHANGED <<circuit, user, users, seed, fhe_outputs, server_key,
                   concluded, lastSub, resub, keyInstalls>>

\* Faulty variant of derive_server_key: the last share is left out.
derive_server_key_without_last(server_key_shares) ==
    Some(SubSeq(server_key_shares, 1, Len(server_key_shares) - 1))

\* derive_server_key: aggregates the shares and sets the process-wide key.
derive_server_key(server_key_shares) == Some(server_key_shares)

\* POST /run: derive_server_key(&server_key_shares), long running.
run_derive_server_key(t) ==
    /\ Quiet
    /\ pc[t] = "run_derive_server_key"
    /\ server_key' = derive_server_key(loc[t].server_key_shares)
    /\ keyInstalls' = keyInstalls + 1
    /\ pc' = [pc EXCEPT ![t] = "run_evaluate_circuit"]
    /\ resp' = NoResp
    /\ UNCHANGED <<circuit, user, users, seed, ss_users, fhe_outputs, status, users_lock,
                   ss_lock, loc, concluded, lastSub, resub>>

\* POST /run: ss.fhe_outputs = evaluate_circuit(&ciphers), long running.
run_evaluate_circuit(t) ==
    /\ Quiet
    /\ pc[t] = "run_evaluate_circuit"
    /\ fhe_outputs' = evaluate_circuit(loc[t].ciphers)
    /\ pc' = [pc EXCEPT ![t] = "run_completed"]
    /\ resp' = NoResp
    /\ UNCHANGED <<circuit, user, users, seed, ss_users, status, server_key, users_lock,
                   ss_lock, loc, concluded, lastSub, resub, keyInstalls>>

\* POST /run: *status.lock().await = CompletedFhe and the response.
run_completed(t) ==
    /\ Quiet
    /\ pc[t] = "run_completed"
    /\ status' = "CompletedFhe"
    /\ Return(t, Response("run", "ok_fhe_complete", <<>>))
    /\ UNCHANGED <<circuit, user, users, seed, ss_users, fhe_outputs, server_key,
                   concluded, lastSub, resub, keyInstalls>>

\* GET /fhe_output
get_fhe_output ==
    /\ ss_lock = 0
    /\ IF fhe_outputs = <<>>
       THEN Answer(Response("get_fhe_output", "err_output_not_ready", <<>>))
       ELSE Answer(Response("get_fhe_output", "ok", fhe_outputs))
    /\ UNCHANGED <<circuit, user, users, seed, ss_users, fhe_outputs, status, server_key,
                   concluded, lastSub, resub, keyInstalls>>

\* POST /submit_decryption_shares of one request, up to the await of the
\* user list mutex.
submit_decryption_shares_of(t, user_id, decryption_shares) ==
    /\ Quiet
    /\ pc[t] = "idle"
    /\ ss_lock = 0
    /\ IF user_id >= Len(ss_users)
       THEN /\ Panic(t, "submit_decryption_shares")
            /\ UNCHANGED ss_users
       ELSE IF get_mut_decryption_shares(ss_users[user_id + 1]) = None
       THEN /\ Return(t, Response("submit_decryption_shares",
                                  "err_output_not_ready", <<>>))
            /\ UNCHANGED ss_users
       ELSE /\ ss_users' = [ss_users EXCEPT ![user_id + 1] =
                               DecryptionShare(Some(decryption_shares))]
            /\ ss_lock' = t
            /\ pc' = [pc EXCEPT ![t] = "submit_decryption_shares_users"]
            /\ loc' = [loc EXCEPT ![t] = [user_id |-> user_id]]
            /\ resp' = NoResp
            /\ UNCHANGED users_lock
    /\ UNCHANGED <<circuit, user, users, seed, fhe_outputs, status, server_key,
                   concluded, lastSub, resub, keyInstalls>>

\* POST /submit_decryption_shares, up to the await of the user list mutex.
submit_decryption_shares(t) ==
    \E user_id \in UserIds, decryption_shares \in ShareVecs :
        submit_decryption_shares_of(t, user_id, decryption_shares)

\* POST /submit_decryption_shares, from the user list mutex to the response.
submit_decryption_shares_users(t) ==
    /\ Quiet
    /\ pc[t] = "submit_decryption_shares_users"
    /\ users_lock = 0
    /\ LET user_id == loc[t].user_id
       IN  IF user_id >= Len(users)
           THEN /\ Panic(t, "submit_decryption_shares")
                /\ UNCHANGED users
           ELSE /\ users' = [users EXCEPT
                               ![user_id + 1].status = "DecryptionShareSubmitted"]
                /\ Return(t, Response("submit_decryption_shares", "ok_user", <<user_id>>))
    /\ UNCHANGED <<circuit, user, seed, ss_users, fhe_outputs, status, server_key,
                   concluded, lastSub, resub, keyInstalls>>

\* GET /decryption_share/<fhe_output_id>/<user_id>: the response.
decryption_share_response(fhe_output_id, user_id) ==
    LET op == "get_decryption_share"
        got == get_mut_decryption_shares(ss_users[user_id + 1])
    IN  IF user_id >= Len(ss_users) THEN Response(op, "panic", <<>>)
        ELSE IF got = None THEN Response(op, "err_output_not_ready", <<>>)
        ELSE IF got[1] = None
        THEN Response(op, "err_decryption_share_not_found", <<fhe_output_id, user_id>>)
        ELSE IF fhe_output_id >= Len(got[1][1]) THEN Response(op, "panic", <<>>)
        ELSE Response(op, "ok", <<fhe_output_id, user_id, got[1][1][fhe_output_id + 1]>>)

\* GET /decryption_share/<fhe_output_id>/<user_id>
get_decryption_share ==
    /\ ss_lock = 0
    /\ \E fhe_output_id \in OutputIds, user_id \in UserIds :
          Answer(decryption_share_response(fhe_output_id, user_id))
    /\ UNCHANGED <<circuit, user, users, seed, ss_users, fhe_outputs, status, server_key,
                   concluded, lastSub, resub, keyInstalls>>

\* The response is written; the client has it.
respond ==
    /\ ~Quiet
    /\ resp' = NoResp
    /\ UNCHANGED <<circuit, user, users, seed, ss_users, fhe_outputs, status, server_key,
                   users_lock, ss_lock, pc, loc, concluded, lastSub, resub,
                   keyInstalls>>

Next ==
    \/ respond
    \/ get_param
    \/ get_users
    \/ get_fhe_output
    \/ get_decryption_share
    \/ \E t \in Threads :
        \/ register(t)
        \/ conclude_registration(t)
        \/ submit(t)
        \/ submit_ss(t)
        \/ run(t)
        \/ run_users(t)
        \/ run_ss(t)
        \/ run_derive_server_key(t)
        \/ run_evaluate_circuit(t)
        \/ run_completed(t)
        \/ submit_decryption_shares(t)
        \/ submit_decryption_shares_users(t)

Spec == Init /\ [][Next]_vars

\* The steps that carry on a handler suspended at an await: tokio resumes a
\* task whose await is ready, and its mutexes hand over in FIFO order.
handler_step(t) ==
    \/ submit_ss(t)
    \/ run_users(t)
    \/ run_ss(t)
    \/ run_derive_server_key(t)
    \/ run_evaluate_circuit(t)
    \/ run_completed(t)
    \/ submit_decryption_shares_users(t)

\* Fair scheduling: a response is eventually written, a handler that can go
\* on eventually does, and the client polls /run again and again (the loop
\* of tests.rs around trigger_fhe_run).
FairSpec ==
    /\ Spec
    /\ SF_vars(respond)
    /\ \A t \in Threads : SF_vars(handler_step(t))
    /\ SF_vars(\E t \in Threads : run(t))

----------------------------------------------------------------------------
\* The client side: the User of src/src/tests.rs from the moment it has its
\* id, through the collection of decryption shares, to decrypt_everything.

\* Largest number of participants a client is told.
MaxClientUsers == 3

\* The score matrices the outputs a client receives come from: user i gives
\* the scores 0..n-1 (as run_flow_with_n_users assigns them), or (i+j) % 4.
ScoreMatrices(n) ==
    {[i \in 1..n |-> [j \in 1..n |-> j - 1]],
     [i \in 1..n |-> [j \in 1..n |-> (i + j) % 4]]}

\* The client goes on as long as no expect has failed and it has not
\* decrypted yet.
Alive == ~user.panicked /\ user.decrypted = None

\* user.set_id(reg.id)
set_id ==
    /\ Alive
    /\ user.id = None
    /\ \E id \in 0..(MaxClientUsers - 1) : user' = [user EXCEPT !.id = Some(id)]
    /\ UNCHANGED <<server_vars, circuit>>

\* user.set_total_users(dashboard.get_names().len()): the list holds the
\* user itself.
set_total_users ==
    /\ Alive
    /\ user.id # None
    /\ user.total_users = None
    /\ \E n \in (user.id[1] + 1)..MaxClientUsers :
          user' = [user EXCEPT !.total_users = Some(n)]
    /\ UNCHANGED <<server_vars, circuit>>

\* user.set_fhe_out(client.get_fhe_output()): one output per participant.
set_fhe_out ==
    /\ Alive
    /\ user.total_users # None
    /\ user.fhe_out = None
    /\ \E m \in ScoreMatrices(user.total_users[1]) :
          user' = [user EXCEPT !.fhe_out = Some(evaluate_circuit(m))]
    /\ UNCHANGED <<server_vars, circuit>>

\* User::gen_decryption_shares: the user's own share of every output.
gen_decryption_shares ==
    /\ Alive
    /\ IF user.fhe_out = None \/ user.id = None
       THEN user' = [user EXCEPT !.panicked = TRUE]
       ELSE user' = [user EXCEPT !.decryption_shares =
                        @ \cup {<<output_id, user.id[1]>> :
                                  output_id \in 0..(Len(user.fhe_out[1]) - 1)}]
    /\ UNCHANGED <<server_vars, circuit>>

\* The loop of run_flow_with_n_users over the cells: a share that is not
\* held is fetched from the server and inserted.
acquire_decryption_share ==
    /\ Alive
    /\ user.total_users # None
    /\ \E output_id \in 0..(user.total_users[1] - 1),
          user_id \in 0..(user.total_users[1] - 1) :
          /\ <<output_id, user_id>> \notin user.decryption_shares
          /\ user' = [user EXCEPT !.decryption_shares =
                         @ \cup {<<output_id, user_id>>}]
    /\ UNCHANGED <<server_vars, circuit>>

\* decrypt_word: the plaintext of the output when the shares are those of
\* all the parties, noise otherwise.
decrypt_word(output, decryption_shares, parties) ==
    IF {decryption_shares[k][2] : k \in 1..Len(decryption_shares)} = 0..(parties - 1)
    THEN output
    ELSE "noise"

\* The users 0..total_users-1 whose share of output_id is held, in order.
RECURSIVE held_shares(_, _, _)
held_shares(decryption_shares, output_id, total_users) ==
    IF total_users = 0 THEN <<>>
    ELSE LET rest == held_shares(decryption_shares, output_id, total_users - 1)
             key == <<output_id, total_users - 1>>
         IN  IF key \in decryption_shares THEN Append(rest, key) ELSE rest

\* Faulty variant of shares_of_output: a share that is not held is skipped.
shares_of_output_skip_missing(decryption_shares, output_id, total_users) ==
    Some(held_shares(decryption_shares, output_id, total_users))

\* (0..total_users).map(|user_id| decryption_shares.get(&(output_id,
\* user_id)).expect("exists")): the shares of one output, None when the
\* expect fails.
shares_of_output(decryption_shares, output_id, total_users) ==
    IF \A user_id \in 0..(total_users - 1) :
          <<output_id, user_id>> \in decryption_shares
    THEN Some(held_shares(decryption_shares, output_id, total_users))
    ELSE None

\* User::decrypt_everything
decrypt_everything ==
    /\ Alive
    /\ IF user.total_users = None \/ user.fhe_out = None
       THEN user' = [user EXCEPT !.panicked = TRUE]
       ELSE LET total_users == user.total_users[1]
                fhe_out == user.fhe_out[1]
                got == [o \in 1..Len(fhe_out) |->
                          shares_of_output(user.decryption_shares, o - 1, total_users)]
            IN  IF \E o \in 1..Len(fhe_out) : got[o] = None
                THEN user' = [user EXCEPT !.panicked = TRUE]
                ELSE user' = [user EXCEPT !.decrypted =
                                 Some([o \in 1..Len(fhe_out) |->
                                         decrypt_word(fhe_out[o], got[o][1], total_users)])]
    /\ UNCHANGED <<server_vars, circuit>>

ClientNext ==
    \/ set_id
    \/ set_total_users
    \/ set_fhe_out
    \/ gen_decryption_shares
    \/ acquire_decryption_share
    \/ decrypt_everything

ClientSpec == Init /\ [][ClientNext]_vars

----------------------------------------------------------------------------
\* evaluate_circuit on its own: a square matrix of scores is handed to it
\* and it returns the outputs.

\* The largest number of users of such a call.
MaxCircuitUsers == 3

\* The scores a cell of the matrix may hold; sums of them exceed 255.
CircuitScores == {3, 200}

\* The argument: one row of n scores for each of n users.
circuit_input ==
    /\ circuit = NoCircuit
    /\ \E n \in 1..MaxCircuitUsers :
          \E m \in [1..n -> [1..n -> CircuitScores]] :
              circuit' = [ciphers |-> m, outs |-> <<>>]
    /\ UNCHANGED <<server_vars, user>>

\* outs = evaluate_circuit(users)
circuit_evaluate ==
    /\ circuit.ciphers # <<>>
    /\ circuit.outs = <<>>
    /\ circuit' = [circuit EXCEPT !.outs = evaluate_circuit(circuit.ciphers)]
    /\ UNCHANGED <<server_vars, user>>

CircuitNext ==
    \/ circuit_input
    \/ circuit_evaluate

CircuitSpec == Init /\ [][CircuitNext]_vars

----------------------------------------------------------------------------
\* Predicates shared by the properties below.

\* The number of registered participants.
N == Len(users)

\* The threads that are inside the body of /run (past its status check).
RunBody == {"run_users", "run_ss", "run_derive_server_key",
            "run_evaluate_circuit", "run_completed"}

\* The threads that are aggregating the key or evaluating the circuit.
Computing == {t \in Threads :
                pc[t] \in {"run_derive_server_key", "run_evaluate_circuit"}}

\* Every registered participant's status says it has submitted its pair.
AllSubmitted ==
    /\ N >= 1
    /\ \A i \in 1..N : users[i].status = "CipherSubmitted"

\* Every registered participant has a slot and it holds a pair.
AllSlotsFilled ==
    /\ N >= 1
    /\ N <= Len(ss_users)
    /\ \A i \in 1..N : ss_users[i].tag = "CipherSks"

\* The rows last submitted by participants 0..n-1, as a matrix.
LastRows(n) == [i \in 1..n |-> lastSub[i - 1][1].cipher_text]

\* The key shares last submitted by participants 0..n-1.
LastShares(n) == [i \in 1..n |-> lastSub[i - 1][1].sks]

RECURSIVE SumTo(_, _)
SumTo(f, n) == IF n = 0 THEN 0 ELSE f[n] + SumTo(f, n - 1)

\* Net balance of participant i (0-based) in the n x n matrix m: what the
\* others allocated to i minus what i allocated, modulo 256.
NetBalance(m, n, i) ==
    (SumTo([j \in 1..n |-> m[j][i + 1]], n) - SumTo(m[i + 1], n)) % 256

----------------------------------------------------------------------------
\* C1: for every N >= 1, a /run made when all N participants have submitted
\* completes, and output i is then the net balance of participant i modulo
\* 256 (received from everybody minus allocated to everybody).
C1_FullRunYieldsNetBalances ==
    (/\ resp.op = "run"
     /\ resp.kind \in {"err_unregistered_users", "err_missing_submission",
                       "panic", "ok_fhe_complete"}
     /\ AllSubmitted)
    => /\ resp.kind = "ok_fhe_complete"
       /\ Len(fhe_outputs) = N
       /\ \A i \in 0..(N - 1) : fhe_outputs[i + 1] = NetBalance(LastRows(N), N, i)

\* C2: there is no state in which the slots of all N = TOTAL_USERS
\* participants hold a pair while the status is still the one of the input
\* phase.
C2_NoFullSlotsWhileWaiting ==
    (N = TOTAL_USERS /\ AllSlotsFilled) => status # "Waiting"

C4_OutputsIffCompleted ==
    resp.op = "get_fhe_output"
    => IF status # "CompletedFhe"
       THEN resp.kind = "err_output_not_ready"
       ELSE resp.kind = "ok" /\ Len(resp.val) = N

\* C5: the participant at position i of the list has id i, so the ids are
\* 0..N-1 without gap or duplicate, and the k-th registration to take effect
\* is answered with id k-1.
C5_DenseIds ==
    /\ \A i \in 1..N : users[i].id = i - 1
    /\ resp.op = "register" => (N >= 1 /\ resp.val = <<N - 1>>)

\* C5 witness: a third registration has just been answered.
C5_Witness == resp.op = "register" /\ N >= 3

\* C6: once registration is concluded, /register fails with WrongPhase.
C6_RegisterAfterConcluded ==
    (concluded /\ resp.op = "register") => resp.kind = "err_already_concluded"

\* C7: while some participant has not submitted, the status stays the one
\* of the input phase.
C7_PartialNeverRuns ==
    (\E i \in 1..N : users[i].status = "IDAcquired") => status = "Waiting"

\* C8: the snapshot /run hands to derive_server_key and evaluate_circuit
\* holds, for each participant, the pair of its last /submit; the key
\* installed and the outputs are those of the last pairs alone.
C8_LastSubmissionWins ==
    \A t \in Threads :
        /\ pc[t] \in {"run_derive_server_key", "run_evaluate_circuit", "run_completed"}
           => /\ loc[t].ciphers = LastRows(N)
              /\ loc[t].server_key_shares = LastShares(N)
        /\ pc[t] \in {"run_evaluate_circuit", "run_completed"}
           => server_key = Some(LastShares(N))
        /\ pc[t] = "run_completed"
           => fhe_outputs = evaluate_circuit(LastRows(N))

\* C8 witness: an evaluation has finished after some participant replaced
\* the pair it had submitted by a different one.
C8_Witness ==
    /\ resub
    /\ \E t \in Threads : pc[t] = "run_completed"
    /\ fhe_outputs = evaluate_circuit(LastRows(N))

\* C9: the /run that starts the computation is answered while the status is
\* RunningFhe and before there are outputs.
C9_TriggeringRunReturnsEarly ==
    (resp.op = "run" /\ resp.kind = "ok_fhe_complete")
    => (status = "RunningFhe" /\ fhe_outputs = <<>>)

\* C10: while the key is aggregated and the circuit evaluated, neither the
\* user list mutex nor the storage mutex is held.
C10_NoLockHeldWhileComputing ==
    Computing # {} => (users_lock = 0 /\ ss_lock = 0)

\* Two handlers wait for each other's mutex: /submit or /run holds the user
\* list and awaits the storage, /submit_decryption_shares holds the storage
\* and awaits the user list.
LockCycle ==
    \E t1, t2 \in Threads :
        /\ pc[t1] \in {"submit_ss", "run_ss"}
        /\ pc[t2] = "submit_decryption_shares_users"

\* C11: under fair scheduling, once every one of the N participants has
\* submitted its pair and /run has been called, the status eventually is
\* CompletedFhe (behaviours that end in a cycle of lock waits set aside).
C11_RunEventuallyCompletes ==
    (AllSlotsFilled /\ AllSubmitted /\ \E t \in Threads : pc[t] = "run_users")
    ~> (status = "CompletedFhe" \/ LockCycle)

\* C12: a /submit made once the evaluation is over (status CompletedFhe, a
\* phase other than the input phase) is not accepted.
C12_SubmitAfterCompletedFails ==
    (resp.op = "submit" /\ status = "CompletedFhe") => resp.kind # "ok_user"

\* C13: a /submit whose user_id is not smaller than N never gets to the
\* write of a slot: it is answered err_unregistered_user at once, and that
\* answer leaves every slot, every participant status, the status and the
\* outputs as they were.
C13_UnknownUserRejected ==
    /\ [](\A t \in Threads : pc[t] = "submit_ss" => loc[t].user_id < N)
    /\ [][\A t \in Threads :
            submit(t)
            => /\ UNCHANGED <<users, ss_users, status, fhe_outputs, server_key>>
               /\ resp'.op = "submit"
                  => /\ resp'.kind = "err_unregistered_user"
                     /\ resp'.val[1] >= N]_vars

\* C13 witness: with participants registered, a /submit for an id that is
\* not one of theirs has been answered err_unregistered_user.
C13_Witness ==
    /\ N >= 1
    /\ resp.op = "submit"
    /\ resp.kind = "err_unregistered_user"
    /\ resp.val[1] >= N

\* C14: a /submit_decryption_shares for a user whose slot is Empty or holds
\* a pair is answered err_output_not_ready and leaves the slots and the
\* participants as they were; the handler goes on to mark a participant
\* only for a slot that is in the DecryptionShare state.
C14_SharesBeforeEvaluationRejected ==
    /\ [](\A t \in Threads :
            pc[t] = "submit_decryption_shares_users"
            => ss_users[loc[t].user_id + 1].tag = "DecryptionShare")
    /\ [][\A t \in Threads, user_id \in 0..(TOTAL_USERS - 1),
             decryption_shares \in ShareVecs :
            (/\ ss_users[user_id + 1].tag \in {"Empty", "CipherSks"}
             /\ submit_decryption_shares_of(t, user_id, decryption_shares))
            => /\ resp'.op = "submit_decryption_shares"
               /\ resp'.kind = "err_output_not_ready"
               /\ UNCHANGED <<users, ss_users, status, fhe_outputs>>]_vars

\* C14 witness: every slot holds a pair and a /submit_decryption_shares
\* has been answered err_output_not_ready.
C14_Witness ==
    /\ \A i \in 1..Len(ss_users) : ss_users[i].tag = "CipherSks"
    /\ resp.op = "submit_decryption_shares"
    /\ resp.kind = "err_output_not_ready"

\* C15: /decryption_share/<o>/<u> for a participant u is answered
\* err_output_not_ready when u's slot is not in the DecryptionShare state,
\* err_decryption_share_not_found(o, u) when it is DecryptionShare(None),
\* and otherwise with the share u submitted at position o.
C15_DecryptionShareAnswers ==
    [][\A fhe_output_id \in OutputIds, user_id \in UserIds :
          (/\ get_decryption_share
           /\ user_id < N
           /\ resp' = decryption_share_response(fhe_output_id, user_id))
          => IF \/ user_id >= Len(ss_users)
                \/ ss_users[user_id + 1].tag # "DecryptionShare"
             THEN resp'.kind = "err_output_not_ready"
             ELSE IF ss_users[user_id + 1].ds = None
             THEN /\ resp'.kind = "err_decryption_share_not_found"
                  /\ resp'.val = <<fhe_output_id, user_id>>
             ELSE /\ resp'.kind = "ok"
                  /\ resp'.val = <<fhe_output_id, user_id,
                                   ss_users[user_id + 1].ds[1][fhe_output_id + 1]>>]_vars

\* C16: CompletedFhe is terminal.  No step changes the status once it is
\* CompletedFhe; a /run made then is answered "already ended" and changes
\* nothing; and a /submit_decryption_shares for a slot that awaits or holds
\* shares is still accepted: the shares are stored and the call is answered
\* ok_user.
C16_CompletedIsTerminal ==
    /\ [][status = "CompletedFhe" => status' = "CompletedFhe"]_vars
    /\ [][\A t \in Threads :
            (status = "CompletedFhe" /\ run(t))
            => /\ resp'.kind = "ok_run_already_end"
               /\ UNCHANGED <<users, seed, ss_users, fhe_outputs, status,
                              server_key, users_lock, ss_lock, pc, loc,
                              keyInstalls>>]_vars
    /\ [][\A t \in Threads, user_id \in 0..(TOTAL_USERS - 1),
             decryption_shares \in ShareVecs :
            (/\ status = "CompletedFhe"
             /\ ss_users[user_id + 1].tag = "DecryptionShare"
             /\ submit_decryption_shares_of(t, user_id, decryption_shares))
            => ss_users'[user_id + 1] = DecryptionShare(Some(decryption_shares))]_vars
    /\ [][\A t \in Threads :
            (status = "CompletedFhe" /\ submit_decryption_shares_users(t))
            => resp'.kind = "ok_user"]_vars

\* C16 witness: in CompletedFhe some participant's shares have been stored
\* and a /run has been answered "already ended".
C16_Witness ==
    /\ status = "CompletedFhe"
    /\ resp.op = "run"
    /\ resp.kind = "ok_run_already_end"
    /\ \E i \in 1..Len(ss_users) :
          ss_users[i].tag = "DecryptionShare" /\ ss_users[i].ds # None

\* C17: once registration has been concluded, no step changes the number
\* of participants.
C17_NFixedAfterConclusion ==
    [][concluded => Len(users') = Len(users)]_vars

\* C18: a client has plaintexts only if it holds, for every output o, the
\* decryption share (o, u) of every participant u; with a share missing
\* decrypt_everything yields nothing.
C18_DecryptsOnlyWithAllShares ==
    user.decrypted # None
    => /\ Len(user.decrypted[1]) = Len(user.fhe_out[1])
       /\ \A output_id \in 0..(Len(user.fhe_out[1]) - 1),
             user_id \in 0..(user.total_users[1] - 1) :
             <<output_id, user_id>> \in user.decryption_shares

\* C18 witness: a client of three participants has decrypted.
C18_Witness ==
    /\ user.decrypted # None
    /\ user.total_users = Some(3)
    /\ Cardinality(user.decryption_shares) = 9

\* How far a slot is along Empty -> CipherSks -> DecryptionShare(None) ->
\* DecryptionShare(Some).
SlotRank(slot) ==
    CASE slot.tag = "Empty" -> 0
      [] slot.tag = "CipherSks" -> 1
      [] slot.tag = "DecryptionShare" -> IF slot.ds = None THEN 2 ELSE 3

\* C20: no step moves a slot backward along Empty -> CipherSks ->
\* DecryptionShare(None) -> DecryptionShare(Some).
C20_SlotsOnlyMoveForward ==
    [][\A i \in 1..Len(ss_users) :
          SlotRank(ss_users'[i]) >= SlotRank(ss_users[i])]_vars

\* C21: a /run drains the slots of all participants together or of none:
\* the step of /run that reads the slots either leaves every slot as it
\* was, or leaves every participant's slot DecryptionShare(None) and goes
\* on to the evaluation.
C21_DrainAllOrNone ==
    [][\A t \in Threads :
          run_ss(t)
          => \/ ss_users' = ss_users
             \/ /\ pc'[t] = "run_derive_server_key"
                /\ \A i \in 1..N : ss_users'[i] = DecryptionShare(None)]_vars

\* C22: a /run caller is told "already running" only if a computation was
\* started: never while the /run in progress holds the user list and is
\* about to find a slot without a pair, fail and roll the status back.
C22_RunningOnlyIfStarted ==
    (resp.op = "run" /\ resp.kind = "err_run_in_progress")
    => \A t \in Threads :
          pc[t] = "run_ss"
          => load_submissions(N, ss_users, 0, <<>>, <<>>).outcome = "ok"

\* C23: no two handlers wait for each other: there is no state in which
\* the holder of the user list mutex awaits the storage mutex while the
\* holder of the storage mutex awaits the user list mutex.
C23_NoLockCycle ==
    ~(\E t1, t2 \in Threads :
         /\ users_lock = t1
         /\ ss_lock = t2
         /\ pc[t1] \in {"submit_ss", "run_ss"}
         /\ pc[t2] = "submit_decryption_shares_users")

\* C24: the status only moves forward, Waiting -> RunningFhe ->
\* CompletedFhe, but for the rollback RunningFhe -> Waiting of a /run that
\* fails; and no phase is skipped: the status leaves Waiting for RunningFhe
\* only when the inputs are complete (every participant's slot holds a
\* pair), the state the phase before RunningFhe stands for.
C24_PhaseOrder ==
    /\ [][status' # status
          => \/ status = "Waiting" /\ status' = "RunningFhe"
             \/ status = "RunningFhe" /\ status' = "CompletedFhe"
             \/ /\ status = "RunningFhe" /\ status' = "Waiting"
                /\ resp'.op = "run"
                /\ resp'.kind \in {"err_unregistered_users",
                                   "err_missing_submission"}]_vars
    /\ [][(status = "Waiting" /\ status' = "RunningFhe") => AllSlotsFilled]_vars

C26_ServerKeyInstalledOnce ==
    /\ [](keyInstalls <= 1)
    /\ [](Cardinality({t \in Threads : pc[t] = "run_derive_server_key"}) <= 1)
    /\ [][\A t \in Threads :
            run_derive_server_key(t)
            => /\ keyInstalls = 0
               /\ server_key = None
               /\ fhe_outputs = <<>>
               /\ Len(loc[t].server_key_shares) = N
               /\ server_key' = Some(loc[t].server_key_shares)]_vars
    /\ [][\A t \in Threads :
            run_evaluate_circuit(t)
            => /\ keyInstalls = 1
               /\ server_key = Some(loc[t].server_key_shares)]_vars

\* C26 witness: the key is installed, the circuit is being evaluated, and
\* a further /run has been made and answered.
C26_Witness ==
    /\ keyInstalls = 1
    /\ server_key # None
    /\ \E t \in Threads : pc[t] = "run_evaluate_circuit"
    /\ resp.op = "run"

\* C27: the list of FHE outputs is written once: it is empty until the
\* evaluation step of the one run that installed the key, and once it is
\* not empty no step changes its length or its elements.
C27_OutputsWrittenOnce ==
    /\ [](fhe_outputs # <<>>
            => keyInstalls = 1 /\ status \in {"RunningFhe", "CompletedFhe"})
    /\ [][fhe_outputs' # fhe_outputs
            => /\ fhe_outputs = <<>>
               /\ \E t \in Threads : /\ pc[t] = "run_evaluate_circuit"
                                      /\ pc'[t] = "run_completed"]_vars

\* C27 witness: the outputs are there, the run is over and a later /submit
\* has been answered.
C27_Witness ==
    /\ fhe_outputs # <<>>
    /\ status = "CompletedFhe"
    /\ resp.op = "submit"

\* C28: once a participant's slot holds decryption shares, no step
\* replaces them by different shares.
C28_SharesNeverReplaced ==
    [][\A i \in 1..Len(ss_users) :
          (/\ ss_users[i].tag = "DecryptionShare"
           /\ ss_users[i].ds # None
           /\ ss_users'[i].tag = "DecryptionShare")
          => ss_users'[i].ds = ss_users[i].ds]_vars

\* C29: while the status is Waiting, a slot that holds a pair keeps that
\* pair when its participant submits again.
C29_OnePairPerSlot ==
    [][\A i \in 1..Len(ss_users) :
          (/\ status = "Waiting"
           /\ ss_users[i].tag = "CipherSks"
           /\ ss_users'[i].tag = "CipherSks")
          => ss_users'[i] = ss_users[i]]_vars

\* Position of a participant's status along IDAcquired ->
\* CipherSubmitted -> DecryptionShareSubmitted.
StatusRank(st) ==
    CASE st = "IDAcquired" -> 0
      [] st = "CipherSubmitted" -> 1
      [] st = "DecryptionShareSubmitted" -> 2

\* C30: no step moves the status of a registered participant backward, and
\* no step removes a participant from the list.
C30_StatusOnlyAdvances ==
    [][/\ Len(users') >= Len(users)
       /\ \A i \in 1..Len(users) :
             /\ users'[i].id = users[i].id
             /\ StatusRank(users'[i].status) >= StatusRank(users[i].status)]_vars

\* C31: every registered participant has a slot, so /submit and /run never
\* index past the end of the slots.
C31_SlotPerParticipant ==
    /\ N <= Len(ss_users)
    /\ resp.op \in {"submit", "run"} => resp.kind # "panic"

\* C32: decryption shares stored in a participant's slot have one entry
\* per output index, that is N entries.
C32_OneSharePerOutput ==
    \A i \in 1..Len(ss_users) :
        (ss_users[i].tag = "DecryptionShare" /\ ss_users[i].ds # None)
        => Len(ss_users[i].ds[1]) = N

\* C33: /submit_decryption_shares and /decryption_share answer with a
\* protocol error, never with a panic, whatever ids the request carries.
C33_ShareRequestsNeverPanic ==
    resp.op \in {"submit_decryption_shares", "get_decryption_share"}
    => resp.kind # "panic"

\* Every registered participant has submitted its decryption shares.
AllSharesSubmitted ==
    /\ N >= 1
    /\ \A i \in 1..N : users[i].status = "DecryptionShareSubmitted"

\* C34: once all N participants have submitted their decryption shares,
\* /decryption_share/o/u answers with the o-th stored share of u for every
\* o and u in 0..N-1.
C34_FullShareMatrixServed ==
    AllSharesSubmitted
    => \A o \in 0..(N - 1), u \in 0..(N - 1) :
          decryption_share_response(o, u).kind = "ok"

\* The status that goes with what a slot holds.
StatusOfSlot(slot) ==
    IF slot.tag = "Empty" THEN "IDAcquired"
    ELSE IF slot.tag = "DecryptionShare" /\ slot.ds # None
    THEN "DecryptionShareSubmitted"
    ELSE "CipherSubmitted"

\* C35: whenever both mutexes are free (what a request can observe), the
\* status of each participant that has a slot is the one that goes with
\* what the slot holds.
C35_StatusAgreesWithSlot ==
    (users_lock = 0 /\ ss_lock = 0)
    => \A i \in 1..N :
          i <= Len(ss_users) => users[i].status = StatusOfSlot(ss_users[i])

\* C35 witness: no request is being handled and the three kinds of
\* agreement are there at once: a slot with shares, a drained slot and a
\* participant without a submission.
C35_Witness ==
    /\ \A t \in Threads : pc[t] = "idle"
    /\ N = 4
    /\ users[1].status = "DecryptionShareSubmitted"
    /\ ss_users[2] = DecryptionShare(None)
    /\ users[3].status = "CipherSubmitted"
    /\ users[4].status = "IDAcquired"

\* The handlers that only read.
ReadOps == {"get_param", "get_users", "get_fhe_output", "get_decryption_share"}

\* C36: a step that answers /param, /users, /fhe_output or
\* /decryption_share changes neither the status, the user list, the slots,
\* the outputs, the key, the seed nor the mutexes; the seed never changes
\* and /param answers with it.
C36_ReadsChangeNothing ==
    /\ [][seed' = seed]_vars
    /\ [](resp.op = "get_param" => resp = Response("get_param", "Seed", <<seed>>))
    /\ [][resp'.op \in ReadOps
            => UNCHANGED <<users, seed, ss_users, fhe_outputs, status,
                           server_key, users_lock, ss_lock, pc, loc>>]_vars

\* C36 witness: /param has been answered after the evaluation has finished.
C36_Witness ==
    /\ resp.op = "get_param"
    /\ status = "CompletedFhe"
    /\ fhe_outputs # <<>>

\* The values tried for what a participant allocates to itself.
SelfScores == {0, 77, 255}

\* C37: the outputs of evaluate_circuit sum to 0 modulo 256, and they stay
\* the same when the score a participant gives to itself is replaced by
\* any other.
C37_LedgerNetsToZero ==
    circuit.outs # <<>>
    => LET m == circuit.ciphers
           n == Len(m)
       IN  /\ Len(circuit.outs) = n
           /\ SumTo(circuit.outs, n) % 256 = 0
           /\ \A i \in 1..n, v \in SelfScores :
                 evaluate_circuit([m EXCEPT ![i][i] = v]) = circuit.outs

\* C37 witness: three users, a row whose sum exceeds 255 and outputs that
\* are not all zero.
C37_Witness ==
    /\ Len(circuit.outs) = 3
    /\ SumTo(circuit.ciphers[1], 3) > 255
    /\ \E i \in 1..3 : circuit.outs[i] # 0

====
